---- MODULE Spec2Model ----
(***************************************************************************)
(* Model of Snake-Prey-game.py: the Game object (simulation thread running *)
(* Game.superloop), the key-press callback Game.whenAnArrowKeyIsPressed    *)
(* and the QueueHandler poll (both run by the Tk event loop), and the      *)
(* queue.Queue between them.                                               *)
(*                                                                         *)
(* Python lists are objects: self.snakeCoordinates is a reference into     *)
(* `heap`, and a {"move": self.snakeCoordinates} task carries the          *)
(* reference, not a copy.                                                  *)
(***************************************************************************)
EXTENDS Integers, Sequences, FiniteSets, TLC

\* ---------------------------------------------------------------- constants
WINDOW_WIDTH == 500
WINDOW_HEIGHT == 300
THRESHOLD == 15
\* the snake's step, the literal 10 of calculateNewCoordinates
STEP == 10
\* the wall coordinate, the literal 5 of isGameOver
MARGIN == 5
\* half the side of the prey box, the literal 5 of createNewPrey
HALF == 5

\* ------------------------------------------------------------------- bounds
\* full program (simulation, keys, queue handler), every interleaving
MaxTicks == 3
MaxKeys == 3
\* simulation and keys, every interleaving, queue handler only at start-up
MaxTicksSim == 6
MaxKeysSim == 3
\* simulation and keys between ticks, long runs
MaxTicksLong == 46
MaxKeysLong == 2
\* keys are delivered before this many ticks have started
KeyTicksLong == 2
\* ticks of the runs that start from every prey createNewPrey can draw
MaxTicksSpawn == 1

Directions == {"Left", "Right", "Up", "Down"}

\* centres random.randrange is asked for in the model: the corners of the
\* spawn region, the first values outside it, and centres around the
\* snake's starting row
PreyPoints ==
  { <<15, 15>>, <<484, 284>>, <<14, 15>>, <<485, 284>>, <<15, 14>>,
    <<484, 285>>, <<450, 60>>, <<440, 60>>, <<470, 60>> }

VARIABLES
  heap,                \* list objects: heap[r] is the list with identity r
  snakeCoordinates,    \* Game.snakeCoordinates, a reference into heap
  direction,           \* Game.direction
  gameNotOver,         \* Game.gameNotOver
  preyCoordinates,     \* Game.preyCoordinates
  score,               \* Game.score
  queue,               \* gameQueue, the tasks not yet taken
  pc,                  \* position of the simulation thread
  NewSnakeCoordinates, \* local of Game.move
  PreyCaught,          \* local of Game.move
  before,              \* history: the snake when the last move was called
  hpc,                 \* position of QueueHandler.queueHandler
  handled,             \* the tasks queueHandler applied to the gui, in order
  emitted,             \* history: every task put, with the list it named
  keysym,              \* e.keysym of the last key event delivered
  ticks,               \* number of Game.move calls started
  keys                 \* number of key events delivered

vars == << heap, snakeCoordinates, direction, gameNotOver, preyCoordinates,
           score, queue, pc, NewSnakeCoordinates, PreyCaught, before, hpc,
           handled, emitted, keysym, ticks, keys >>

\* the list self.snakeCoordinates names, tail first, head last
snake == heap[snakeCoordinates]

\* ------------------------------------------------------------------ helpers
\* a task: a dictionary with one key (type) and its value (arg, a tuple)
Task(t, a) == [type |-> t, arg |-> a]

\* a history entry: the task and, for a move, the list as it was then
Entry(task, h) ==
  [type |-> task.type, arg |-> task.arg,
   body |-> IF task.type = "move" THEN h[task.arg[1]] ELSE << >>]

TaskOf(e) == Task(e.type, e.arg)

TasksOf(s) == [i \in 1..Len(s) |-> TaskOf(s[i])]

\* the stop value is included
range_bug(start, stop) == { v \in start..stop : TRUE }

\* Python range(start, stop)
range(start, stop) == { v \in start..(stop - 1) : TRUE }

\* random.randint in place of randrange: the stop value is included
randrange_bug(start, stop) == start..stop

\* the range starts one too low
randrange_low(start, stop) == (start - 1)..(stop - 1)

\* Python random.randrange(start, stop): the values it can return
randrange(start, stop) == start..(stop - 1)

\* list[:-1]
AllButLast(s) == SubSeq(s, 1, Len(s) - 1)

\* x in list
InList(p, s) == \E i \in 1..Len(s) : s[i] = p

Opposite(d) ==
  CASE d = "Left" -> "Right"
    [] d = "Right" -> "Left"
    [] d = "Up" -> "Down"
    [] d = "Down" -> "Up"

\* --------------------------------------------------------------- Game logic
\* Up and Down take the other sign
calculateNewCoordinates_bug(coords, dir) ==
  LET lastX == coords[Len(coords)][1]
      lastY == coords[Len(coords)][2]
  IN  CASE dir = "Left" -> << lastX - STEP, lastY >>
        [] dir = "Right" -> << lastX + STEP, lastY >>
        [] dir = "Up" -> << lastX, lastY + STEP >>
        [] dir = "Down" -> << lastX, lastY - STEP >>

\* the Right branch also moves down
calculateNewCoordinates_diag(coords, dir) ==
  LET lastX == coords[Len(coords)][1]
      lastY == coords[Len(coords)][2]
  IN  CASE dir = "Left" -> << lastX - STEP, lastY >>
        [] dir = "Right" -> << lastX + STEP, lastY + STEP >>
        [] dir = "Up" -> << lastX, lastY - STEP >>
        [] dir = "Down" -> << lastX, lastY + STEP >>

calculateNewCoordinates(coords, dir) ==
  LET lastX == coords[Len(coords)][1]
      lastY == coords[Len(coords)][2]
  IN  CASE dir = "Left" -> << lastX - STEP, lastY >>
        [] dir = "Right" -> << lastX + STEP, lastY >>
        [] dir = "Up" -> << lastX, lastY - STEP >>
        [] dir = "Down" -> << lastX, lastY + STEP >>

InPreyBox(head, prey) ==
  /\ head[1] \in range(prey[1], prey[3])
  /\ head[2] \in range(prey[2], prey[4])

\* the centres createNewPrey can draw
PreyDraws ==
  { p \in PreyPoints :
      /\ p[1] \in randrange(THRESHOLD, WINDOW_WIDTH - THRESHOLD)
      /\ p[2] \in randrange(THRESHOLD, WINDOW_HEIGHT - THRESHOLD) }

\* a box one unit short on its far sides
PreyBox_small(p) ==
  << p[1] - HALF, p[2] - HALF, p[1] + HALF - 1, p[2] + HALF - 1 >>

\* createNewPrey: (x - 5, y - 5, x + 5, y + 5)
PreyBox(p) == << p[1] - HALF, p[2] - HALF, p[1] + HALF, p[2] + HALF >>

\* the wall is taken to be one step further in
HitsWallX_bug(head, dir) ==
  \/ head[1] = MARGIN + STEP /\ dir = "Left"
  \/ head[1] = WINDOW_WIDTH - MARGIN - STEP /\ dir = "Right"

\* the first two disjuncts of isGameOver
HitsWallX(head, dir) ==
  \/ head[1] = MARGIN /\ dir = "Left"
  \/ head[1] = WINDOW_WIDTH - MARGIN /\ dir = "Right"

\* the third and fourth disjuncts of isGameOver
HitsWallY(head, dir) ==
  \/ head[2] = WINDOW_HEIGHT - MARGIN /\ dir = "Down"
  \/ head[2] = MARGIN /\ dir = "Up"

\* the slice also drops the first element: [1:-1]
BitesItself_bug(head, coords) ==
  InList(head, SubSeq(coords, 2, Len(coords) - 1))

\* the last disjunct of isGameOver
BitesItself(head, coords) == InList(head, AllButLast(coords))

InitialSnake ==
  << <<495, 55>>, <<485, 55>>, <<475, 55>>, <<465, 55>>, <<455, 55>> >>

\* --------------------------------------------------------------------- Init
\* Game(gameQueue) has run and QueueHandler(gameQueue, gui) is in its first
\* queueHandler call; the simulation thread is not started yet.
Init ==
  /\ heap = << InitialSnake >>
  /\ snakeCoordinates = 1
  /\ direction = "Left"
  /\ gameNotOver = TRUE
  /\ score = 0
  /\ \E p \in PreyDraws :
       /\ preyCoordinates = PreyBox(p)
       /\ queue = << Task("prey", PreyBox(p)) >>
       /\ emitted = << Entry(Task("prey", PreyBox(p)), << >>) >>
  /\ pc = "notstarted"
  /\ NewSnakeCoordinates = << >>
  /\ PreyCaught = FALSE
  /\ before = << >>
  /\ hpc = "draining"
  /\ handled = << >>
  /\ keysym = "None"
  /\ ticks = 0
  /\ keys = 0

\* ------------------------------------------------------- simulation thread
\* threading.Thread(target = game.superloop).start(), after QueueHandler()
\* returned
Start ==
  /\ pc = "notstarted"
  /\ hpc = "waiting"
  /\ pc' = "loop"
  /\ UNCHANGED << heap, snakeCoordinates, direction, gameNotOver,
                  preyCoordinates, score, queue, NewSnakeCoordinates,
                  PreyCaught, before, hpc, handled, emitted, keysym, ticks,
                  keys >>

\* while True: the loop does not test the flag
superloop_bug(maxTicks) ==
  /\ pc = "loop"
  /\ ticks < maxTicks
  /\ pc' = "move"
  /\ ticks' = ticks + 1
  /\ UNCHANGED << heap, snakeCoordinates, direction, gameNotOver,
                  preyCoordinates, score, queue, NewSnakeCoordinates,
                  PreyCaught, before, hpc, handled, emitted, keysym, keys >>

\* while self.gameNotOver: (after time.sleep on every round but the first)
superloop(maxTicks) ==
  /\ pc = "loop"
  /\ IF gameNotOver
       THEN /\ ticks < maxTicks
            /\ pc' = "move"
            /\ ticks' = ticks + 1
       ELSE /\ pc' = "done"
            /\ ticks' = ticks
  /\ UNCHANGED << heap, snakeCoordinates, direction, gameNotOver,
                  preyCoordinates, score, queue, NewSnakeCoordinates,
                  PreyCaught, before, hpc, handled, emitted, keysym, keys >>

\* move: NewSnakeCoordinates = self.calculateNewCoordinates()
move_calculate ==
  /\ pc = "move"
  /\ NewSnakeCoordinates' = calculateNewCoordinates(snake, direction)
  /\ before' = snake
  /\ pc' = "update"
  /\ UNCHANGED << heap, snakeCoordinates, direction, gameNotOver,
                  preyCoordinates, score, queue, PreyCaught, hpc, handled,
                  emitted, keysym, ticks, keys >>

\* createNewPrey is called before the score task is put
move_update_bug ==
  /\ pc = "update"
  /\ IF InPreyBox(NewSnakeCoordinates, preyCoordinates)
       THEN \E p \in PreyDraws :
              LET h == [heap EXCEPT ![snakeCoordinates] =
                                      Append(@, NewSnakeCoordinates)]
                  put == << Task("prey", PreyBox(p)),
                            Task("score", << score + 1 >>),
                            Task("move", << snakeCoordinates >>) >>
              IN  /\ score' = score + 1
                  /\ preyCoordinates' = PreyBox(p)
                  /\ heap' = h
                  /\ snakeCoordinates' = snakeCoordinates
                  /\ queue' = queue \o put
                  /\ emitted' = emitted \o
                                  [i \in 1..3 |-> Entry(put[i], h)]
       ELSE LET newCoordinates ==
                  Append(Tail(snake), NewSnakeCoordinates)
                h == Append(heap, newCoordinates)
                put == Task("move", << Len(h) >>)
            IN  /\ heap' = h
                /\ snakeCoordinates' = Len(h)
                /\ queue' = Append(queue, put)
                /\ emitted' = Append(emitted, Entry(put, h))
                /\ UNCHANGED << score, preyCoordinates >>
  /\ PreyCaught' = InPreyBox(NewSnakeCoordinates, preyCoordinates)
  /\ pc' = "over_x"
  /\ UNCHANGED << direction, gameNotOver, NewSnakeCoordinates, before, hpc,
                  handled, keysym, ticks, keys >>

\* move: the PreyCaught test and the branch it selects
move_update ==
  /\ pc = "update"
  /\ IF InPreyBox(NewSnakeCoordinates, preyCoordinates)
       THEN \E p \in PreyDraws :
              LET h == [heap EXCEPT ![snakeCoordinates] =
                                      Append(@, NewSnakeCoordinates)]
                  put == << Task("score", << score + 1 >>),
                            Task("prey", PreyBox(p)),
                            Task("move", << snakeCoordinates >>) >>
              IN  /\ score' = score + 1
                  /\ preyCoordinates' = PreyBox(p)
                  /\ heap' = h
                  /\ snakeCoordinates' = snakeCoordinates
                  /\ queue' = queue \o put
                  /\ emitted' = emitted \o
                                  [i \in 1..3 |-> Entry(put[i], h)]
       ELSE LET newCoordinates ==
                  Append(Tail(snake), NewSnakeCoordinates)
                h == Append(heap, newCoordinates)
                put == Task("move", << Len(h) >>)
            IN  /\ heap' = h
                /\ snakeCoordinates' = Len(h)
                /\ queue' = Append(queue, put)
                /\ emitted' = Append(emitted, Entry(put, h))
                /\ UNCHANGED << score, preyCoordinates >>
  /\ PreyCaught' = InPreyBox(NewSnakeCoordinates, preyCoordinates)
  /\ pc' = "over_x"
  /\ UNCHANGED << direction, gameNotOver, NewSnakeCoordinates, before, hpc,
                  handled, keysym, ticks, keys >>

\* the body of the if of isGameOver
GameIsOver ==
  /\ gameNotOver' = FALSE
  /\ queue' = Append(queue, Task("game_over", << >>))
  /\ emitted' = Append(emitted, Entry(Task("game_over", << >>), heap))
  /\ pc' = "loop"

\* isGameOver: the disjuncts on x, which read self.direction at most once
isGameOver_x ==
  /\ pc = "over_x"
  /\ IF HitsWallX(NewSnakeCoordinates, direction)
       THEN GameIsOver
       ELSE /\ pc' = "over_y"
            /\ UNCHANGED << gameNotOver, queue, emitted >>
  /\ UNCHANGED << heap, snakeCoordinates, direction, preyCoordinates, score,
                  NewSnakeCoordinates, PreyCaught, before, hpc, handled,
                  keysym, ticks, keys >>

\* the membership test is made on the body the tick started with
isGameOver_y_bug ==
  /\ pc = "over_y"
  /\ IF \/ HitsWallY(NewSnakeCoordinates, direction)
        \/ InList(NewSnakeCoordinates, before)
       THEN GameIsOver
       ELSE /\ pc' = "loop"
            /\ UNCHANGED << gameNotOver, queue, emitted >>
  /\ UNCHANGED << heap, snakeCoordinates, direction, preyCoordinates, score,
                  NewSnakeCoordinates, PreyCaught, before, hpc, handled,
                  keysym, ticks, keys >>

\* isGameOver: the disjuncts on y, which read self.direction at most once,
\* and the membership test
isGameOver_y ==
  /\ pc = "over_y"
  /\ IF \/ HitsWallY(NewSnakeCoordinates, direction)
        \/ BitesItself(NewSnakeCoordinates, snake)
       THEN GameIsOver
       ELSE /\ pc' = "loop"
            /\ UNCHANGED << gameNotOver, queue, emitted >>
  /\ UNCHANGED << heap, snakeCoordinates, direction, preyCoordinates, score,
                  NewSnakeCoordinates, PreyCaught, before, hpc, handled,
                  keysym, ticks, keys >>

\* ------------------------------------------------------------ Tk event loop
\* the event loop runs one callback at a time, once the thread is started
TkIdle == pc # "notstarted" /\ hpc = "waiting"

\* the last line of the test repeats the Up line
whenAnArrowKeyIsPressed_bug(e, maxKeys) ==
  /\ TkIdle
  /\ keys < maxKeys
  /\ keys' = keys + 1
  /\ keysym' = e
  /\ LET currentDirection == direction
     IN  IF \/ currentDirection = "Left" /\ e = "Right"
            \/ currentDirection = "Right" /\ e = "Left"
            \/ currentDirection = "Up" /\ e = "Down"
            \/ currentDirection = "Up" /\ e = "Down"
           THEN direction' = direction
           ELSE direction' = e
  /\ UNCHANGED << heap, snakeCoordinates, gameNotOver, preyCoordinates, score,
                  queue, pc, NewSnakeCoordinates, PreyCaught, before, hpc,
                  handled, emitted, ticks >>

whenAnArrowKeyIsPressed(e, maxKeys) ==
  /\ TkIdle
  /\ keys < maxKeys
  /\ keys' = keys + 1
  /\ keysym' = e
  /\ LET currentDirection == direction
     IN  IF \/ currentDirection = "Left" /\ e = "Right"
            \/ currentDirection = "Right" /\ e = "Left"
            \/ currentDirection = "Up" /\ e = "Down"
            \/ currentDirection = "Down" /\ e = "Up"
           THEN direction' = direction
           ELSE direction' = e
  /\ UNCHANGED << heap, snakeCoordinates, gameNotOver, preyCoordinates, score,
                  queue, pc, NewSnakeCoordinates, PreyCaught, before, hpc,
                  handled, emitted, ticks >>

\* the poll is re-armed only while the game is live
queueHandler_after_bug ==
  /\ TkIdle
  /\ gameNotOver
  /\ hpc' = "draining"
  /\ UNCHANGED << heap, snakeCoordinates, direction, gameNotOver,
                  preyCoordinates, score, queue, pc, NewSnakeCoordinates,
                  PreyCaught, before, handled, emitted, keysym, ticks,
                  keys >>

\* gui.root.after(100, self.queueHandler) fires
queueHandler_after ==
  /\ TkIdle
  /\ hpc' = "draining"
  /\ UNCHANGED << heap, snakeCoordinates, direction, gameNotOver,
                  preyCoordinates, score, queue, pc, NewSnakeCoordinates,
                  PreyCaught, before, handled, emitted, keysym, ticks, keys >>

\* the task is taken from the wrong end of the queue
queueHandler_task_bug ==
  /\ hpc = "draining"
  /\ queue # << >>
  /\ LET task == queue[Len(queue)]
     IN  /\ queue' = SubSeq(queue, 1, Len(queue) - 1)
         /\ handled' = Append(handled, Entry(task, heap))
  /\ UNCHANGED << heap, snakeCoordinates, direction, gameNotOver,
                  preyCoordinates, score, pc, NewSnakeCoordinates, PreyCaught,
                  before, hpc, emitted, keysym, ticks, keys >>

\* one round of the while loop: get_nowait, the gui call, task_done
queueHandler_task ==
  /\ hpc = "draining"
  /\ queue # << >>
  /\ LET task == Head(queue)
     IN  /\ queue' = Tail(queue)
         /\ handled' = Append(handled, Entry(task, heap))
  /\ UNCHANGED << heap, snakeCoordinates, direction, gameNotOver,
                  preyCoordinates, score, pc, NewSnakeCoordinates, PreyCaught,
                  before, hpc, emitted, keysym, ticks, keys >>

\* get_nowait raises queue.Empty: re-arm and return
queueHandler_empty ==
  /\ hpc = "draining"
  /\ queue = << >>
  /\ hpc' = "waiting"
  /\ UNCHANGED << heap, snakeCoordinates, direction, gameNotOver,
                  preyCoordinates, score, queue, pc, NewSnakeCoordinates,
                  PreyCaught, before, handled, emitted, keysym, ticks, keys >>

\* ----------------------------------------------------------- specifications
\* the whole program, every interleaving
Next ==
  \/ Start
  \/ superloop(MaxTicks)
  \/ move_calculate
  \/ move_update
  \/ isGameOver_x
  \/ isGameOver_y
  \/ \E e \in Directions : whenAnArrowKeyIsPressed(e, MaxKeys)
  \/ queueHandler_after
  \/ queueHandler_task
  \/ queueHandler_empty

Spec == Init /\ [][Next]_vars

\* the whole program; the Tk event loop keeps running the poll it armed, and
\* a queueHandler call that has started runs on
SpecFair ==
  /\ Spec
  /\ WF_vars(queueHandler_after)
  /\ WF_vars(queueHandler_task)
  /\ WF_vars(queueHandler_empty)

\* the queue handler's first call (made by its constructor) only
FirstDrain ==
  /\ pc = "notstarted"
  /\ (queueHandler_task \/ queueHandler_empty)

\* the simulation and the keys, every interleaving; the poll timer is not
\* scheduled
NextSim ==
  \/ FirstDrain
  \/ Start
  \/ superloop(MaxTicksSim)
  \/ move_calculate
  \/ move_update
  \/ isGameOver_x
  \/ isGameOver_y
  \/ \E e \in Directions : whenAnArrowKeyIsPressed(e, MaxKeysSim)

SpecSim == Init /\ [][NextSim]_vars

\* a key event delivered while the simulation thread sleeps
KeyBetweenTicks(e, maxKeys, keyTicks) ==
  /\ pc = "loop"
  /\ ticks < keyTicks
  /\ whenAnArrowKeyIsPressed(e, maxKeys)

\* long runs: keys are delivered between ticks only; the poll timer is not
\* scheduled
NextLong ==
  \/ FirstDrain
  \/ Start
  \/ superloop(MaxTicksLong)
  \/ move_calculate
  \/ move_update
  \/ isGameOver_x
  \/ isGameOver_y
  \/ \E e \in Directions : KeyBetweenTicks(e, MaxKeysLong, KeyTicksLong)

SpecLong == Init /\ [][NextLong]_vars

\* Game.__init__ with the first prey drawn from the whole range of
\* createNewPrey
InitSpawn ==
  /\ heap = << InitialSnake >>
  /\ snakeCoordinates = 1
  /\ direction = "Left"
  /\ gameNotOver = TRUE
  /\ score = 0
  /\ \E x \in randrange(THRESHOLD, WINDOW_WIDTH - THRESHOLD),
        y \in randrange(THRESHOLD, WINDOW_HEIGHT - THRESHOLD) :
       /\ preyCoordinates = PreyBox(<< x, y >>)
       /\ queue = << Task("prey", PreyBox(<< x, y >>)) >>
       /\ emitted = << Entry(Task("prey", PreyBox(<< x, y >>)), << >>) >>
  /\ pc = "notstarted"
  /\ NewSnakeCoordinates = << >>
  /\ PreyCaught = FALSE
  /\ before = << >>
  /\ hpc = "draining"
  /\ handled = << >>
  /\ keysym = "None"
  /\ ticks = 0
  /\ keys = 0

\* the simulation left alone: no key is pressed and the poll timer is not
\* scheduled
NextSpawn ==
  \/ FirstDrain
  \/ Start
  \/ superloop(MaxTicksSpawn)
  \/ move_calculate
  \/ move_update
  \/ isGameOver_x
  \/ isGameOver_y

SpecSpawn == InitSpawn /\ [][NextSpawn]_vars

\* ------------------------------------------------- vocabulary of the claims
\* the head of the snake: the last element of the list
Head_ == snake[Len(snake)]

Last(s) == s[Len(s)]

GameOverTask == Task("game_over", << >>)

\* a step of the simulation thread that leaves position p
SimStepFrom(p) == pc = p /\ pc' # p

\* the last move call has returned
TickDone == ticks > 0 /\ pc \in {"loop", "done"}

\* the head is on the margin coordinate of the wall that d points to
TowardWallX(head, d) ==
  \/ d = "Left" /\ head[1] = 5
  \/ d = "Right" /\ head[1] = WINDOW_WIDTH - 5

TowardWallY(head, d) ==
  \/ d = "Up" /\ head[2] = 5
  \/ d = "Down" /\ head[2] = WINDOW_HEIGHT - 5

TowardWall(head, d) == TowardWallX(head, d) \/ TowardWallY(head, d)

\* one step of 10 units in direction d
Delta(d) ==
  CASE d = "Left" -> << -10, 0 >>
    [] d = "Right" -> << 10, 0 >>
    [] d = "Up" -> << 0, -10 >>
    [] d = "Down" -> << 0, 10 >>

\* the last tick moved the head one step in direction d
Moved(d) ==
  /\ NewSnakeCoordinates[1] = Last(before)[1] + Delta(d)[1]
  /\ NewSnakeCoordinates[2] = Last(before)[2] + Delta(d)[2]

\* the new head is on a cell of the body the tick started with, other than
\* the tail cell when the tick vacates it
Collides ==
  IF PreyCaught
    THEN InList(NewSnakeCoordinates, before)
    ELSE InList(NewSnakeCoordinates, Tail(before))

GameOverCount ==
  Cardinality({ i \in 1..Len(emitted) : emitted[i].type = "game_over" })

GameOverEmitted == \E i \in 1..Len(emitted) : emitted[i].type = "game_over"

\* ------------------------------------------------------------------ C1
\* isGameOver, as it reads self.direction
C1_Check ==
  /\ SimStepFrom("over_x") /\ TowardWallX(Head_, direction)
       => gameNotOver' = FALSE /\ queue' = Append(queue, GameOverTask)
  /\ SimStepFrom("over_y") /\ TowardWallY(Head_, direction)
       => gameNotOver' = FALSE /\ queue' = Append(queue, GameOverTask)
  /\ gameNotOver /\ ~gameNotOver'
       => \/ TowardWall(Head_, direction)
          \/ InList(Head_, AllButLast(snake))

\* the tick as a whole, keys being delivered between ticks
C1_Tick ==
  TickDone
    => /\ \A d \in Directions :
            Moved(d) /\ TowardWall(NewSnakeCoordinates, d)
              => ~gameNotOver /\ Last(emitted).type = "game_over"
       /\ ~gameNotOver
            => \/ \E d \in Directions :
                    Moved(d) /\ TowardWall(NewSnakeCoordinates, d)
               \/ Collides

C1_Instance ==
  (keys = 0 /\ TickDone)
    => /\ ticks <= 45
       /\ Head_ = << 455 - 10 * ticks, 55 >>
       /\ ticks <= 44 => gameNotOver /\ ~GameOverEmitted
       /\ ticks = 45 => /\ Head_[1] = 5
                        /\ ~gameNotOver
                        /\ Last(emitted).type = "game_over"
                        /\ GameOverCount = 1

C2_SelfCollision ==
  (TickDone /\ Collides)
    => /\ ~gameNotOver
       /\ Last(emitted).type = "game_over"

\* the snake turned three times and ran into its side
C2_Witness ==
  /\ TickDone /\ Collides /\ ~PreyCaught
  /\ NewSnakeCoordinates # before[Len(before) - 1]
  /\ ~gameNotOver

\* a capture tick whose new head is the tail cell
C2_CaptureOnTail ==
  /\ TickDone /\ PreyCaught
  /\ NewSnakeCoordinates = before[1]
  /\ ~gameNotOver

\* ------------------------------------------------------------------ C3
C3_State ==
  GameOverEmitted
    => /\ GameOverCount = 1
       /\ Last(emitted).type = "game_over"
       /\ ~gameNotOver
       /\ pc \in {"loop", "done"}

C3_Step ==
  GameOverEmitted
    => /\ emitted' = emitted
       /\ ticks' = ticks
       /\ gameNotOver' = FALSE
       /\ Len(queue') <= Len(queue)

\* C3: game_over is enqueued at most once; once it is, gameNotOver is False
\* and stays False, superloop calls move no more, and no further task is
\* put, so game_over is the last task of the channel.
C3_GameOverTerminal == []C3_State /\ [][C3_Step]_vars

C3_Witness ==
  /\ GameOverEmitted
  /\ pc = "done"
  /\ keys > 0
  /\ handled # << >> /\ Last(handled).type = "game_over"

\* ------------------------------------------------------------------ C4
\* the centre (x, y) of the current prey box (x-5, y-5, x+5, y+5)
PreyCentre == << preyCoordinates[1] + 5, preyCoordinates[2] + 5 >>

HeadInHalfOpenBox ==
  /\ PreyCentre[1] - 5 <= NewSnakeCoordinates[1]
  /\ NewSnakeCoordinates[1] < PreyCentre[1] + 5
  /\ PreyCentre[2] - 5 <= NewSnakeCoordinates[2]
  /\ NewSnakeCoordinates[2] < PreyCentre[2] + 5

\* the tasks a step puts
PutBy == SubSeq(emitted', Len(emitted) + 1, Len(emitted'))

PutTypes == [i \in 1..Len(PutBy) |-> PutBy[i].type]

C4_Step ==
  SimStepFrom("update")
    => /\ PreyCaught' <=> HeadInHalfOpenBox
       /\ score' = score + 1 <=> HeadInHalfOpenBox
       /\ score' = score <=> ~HeadInHalfOpenBox
       /\ preyCoordinates' = preyCoordinates \/ HeadInHalfOpenBox

\* C4: a tick with new head (hx, hy) and prey box (x-5, y-5, x+5, y+5) is a
\* capture tick if and only if x-5 <= hx < x+5 and y-5 <= hy < y+5, and the
\* capture is registered (score, new prey) in that tick.
C4_HalfOpenCapture == [][C4_Step]_vars

\* the first capture, with the head on the lower edge of the box on both axes
C4_Witness ==
  /\ pc = "over_x" /\ PreyCaught /\ score = 1
  /\ NewSnakeCoordinates[1] = emitted[1].arg[1]
  /\ NewSnakeCoordinates[2] = emitted[1].arg[2]

\* a tick with the head on the upper edge of the box on x: not a capture
C4_UpperEdge ==
  /\ pc = "over_x" /\ ~PreyCaught /\ score = 0
  /\ NewSnakeCoordinates[1] = preyCoordinates[3]
  /\ NewSnakeCoordinates[2] = preyCoordinates[2]

\* ------------------------------------------------------------------ C5
\* box is (x-5, y-5, x+5, y+5) for a centre in the spawn region
InSpawnRegion(box) ==
  \E x \in 15..(WINDOW_WIDTH - 15 - 1), y \in 15..(WINDOW_HEIGHT - 15 - 1) :
    box = << x - 5, y - 5, x + 5, y + 5 >>

C5_Step ==
  SimStepFrom("update") /\ PreyCaught'
    => /\ Len(snake') = Len(snake) + 1
       /\ snake' = Append(snake, NewSnakeCoordinates)
       /\ score' = score + 1
       /\ Cardinality({ i \in 1..Len(PutBy) : PutBy[i].type = "prey" }) = 1
       /\ \A i \in 1..Len(PutBy) :
            PutBy[i].type = "prey" => PutBy[i].arg = preyCoordinates'
       /\ InSpawnRegion(preyCoordinates')

\* C5: on a capture tick the snake grows by exactly the new head (tail kept,
\* other cells unchanged), score grows by exactly 1 and exactly one new prey
\* is spawned, inside the spawn region.
C5_CaptureTick == [][C5_Step]_vars

C5_Witness ==
  /\ pc = "over_x" /\ PreyCaught
  /\ Len(snake) = Len(before) + 1
  /\ score = 2

\* ------------------------------------------------------------------ C6
C6_Step ==
  /\ SimStepFrom("move")
       => /\ NewSnakeCoordinates'[1] = Head_[1] + Delta(direction)[1]
          /\ NewSnakeCoordinates'[2] = Head_[2] + Delta(direction)[2]
  /\ SimStepFrom("update") /\ ~PreyCaught'
       => /\ Len(snake') = Len(snake)
          /\ snake' = Tail(snake) \o << NewSnakeCoordinates >>
          /\ score' = score
          /\ preyCoordinates' = preyCoordinates

\* C6: on a tick without capture the new body is the old body without its
\* first element followed by the new head, score and prey are unchanged, and
\* the new head is the old head moved one step of 10 units in the direction
\* the tick read.
C6_PlainTick == [][C6_Step]_vars

\* ticks without capture in two different directions
C6_Witness ==
  /\ TickDone /\ ~PreyCaught /\ ticks = 2
  /\ Len(snake) = 5
  /\ snake[4] = << 445, 55 >>
  /\ snake[5] = << 445, 65 >>

\* ------------------------------------------------------------------ C7
gameState ==
  << heap, snakeCoordinates, direction, gameNotOver, preyCoordinates, score,
     queue, pc, NewSnakeCoordinates, PreyCaught, hpc, handled >>

C7_Step ==
  keys' = keys + 1
    => IF keysym' = Opposite(direction)
         THEN UNCHANGED gameState
         ELSE direction' = keysym'

\* C7: a key event for the exact opposite of the current direction changes
\* neither the direction nor any other state, every time it is delivered; a
\* key event for any other direction makes it the direction.
C7_OppositeRejected == [][C7_Step]_vars

\* the opposite key was delivered and rejected
C7_Witness ==
  /\ keys = 3
  /\ direction = "Up"
  /\ keysym = "Down"
  /\ ticks = 0

\* ------------------------------------------------------------------ C8
\* the tick before the last one moved the head one step in direction d
MovedBefore(d) ==
  /\ Last(before)[1] = before[Len(before) - 1][1] + Delta(d)[1]
  /\ Last(before)[2] = before[Len(before) - 1][2] + Delta(d)[2]

\* C8: whatever keys are delivered between two consecutive ticks, the later
\* tick does not move in the direct opposite of the direction of the earlier
\* tick, so no tick puts the new head on the cell of the segment right behind
\* the old head.
C8_NoReversal ==
  (TickDone /\ ticks >= 2)
    => /\ \A d \in Directions : MovedBefore(d) => ~Moved(Opposite(d))
       /\ NewSnakeCoordinates # before[Len(before) - 1]

\* ------------------------------------------------------------------ C9
\* C9: a tick that moves the head onto a margin coordinate toward that wall
\* ends the game, also when a key is pressed during the tick.
C9_WallTickEndsGame ==
  TickDone
    => \A d \in Directions :
         Moved(d) /\ TowardWall(NewSnakeCoordinates, d)
           => ~gameNotOver /\ GameOverEmitted

\* ------------------------------------------------------------------ C10
\* C10: at every point of every interleaving of the puts and the gets, the
\* tasks the queue handler has handled, followed by the tasks still in the
\* queue, are the tasks the simulation has put, in the order it put them.
C10_Fifo ==
  /\ TasksOf(handled) \o queue = TasksOf(emitted)
  /\ Len(handled) <= Len(emitted)
  /\ \A i \in 1..Len(handled) : TaskOf(handled[i]) = TaskOf(emitted[i])

\* the handler is in the middle of a drain while tasks of two ticks wait
C10_Witness ==
  /\ hpc = "draining"
  /\ Len(handled) >= 2
  /\ Len(queue) >= 2
  /\ queue[1] # queue[2]
  /\ pc = "update"

\* ------------------------------------------------------------------ C11
\* C11: every move task, when the queue handler handles it, carries the
\* snake (tail to head) as it was at the end of the tick that put it,
\* however many ticks have run since.
C11_MoveCarriesItsBody ==
  \A i \in 1..Len(handled) :
    handled[i].type = "move" => handled[i].body = emitted[i].body

\* ------------------------------------------------------------------ C12
GameOverHandled ==
  \E i \in 1..Len(handled) : handled[i].type = "game_over"

C12_Step ==
  GameOverHandled /\ keys' = keys + 1
    => UNCHANGED << heap, snakeCoordinates, direction, gameNotOver,
                    preyCoordinates, score, queue >>

\* C12: once game_over has been put and handled (Gui.gameOver has run), a
\* key event changes neither Game.direction nor any other state of the
\* simulation.
C12_NoInputAfterGameOver == [][C12_Step]_vars

\* ------------------------------------------------------------------ C13
\* box is (x-5, y-5, x+5, y+5) and its centre is in the spawn region
CentredInRegion(box) ==
  LET x == box[1] + 5
      y == box[2] + 5
  IN  /\ Len(box) = 4
      /\ box = << x - 5, y - 5, x + 5, y + 5 >>
      /\ 15 <= x /\ x < WINDOW_WIDTH - 15
      /\ 15 <= y /\ y < WINDOW_HEIGHT - 15

\* the box covers a cell of the snake
OverlapsSnake(box) ==
  \E i \in 1..Len(snake) :
    /\ box[1] <= snake[i][1] /\ snake[i][1] < box[3]
    /\ box[2] <= snake[i][2] /\ snake[i][2] < box[4]

\* C13: in every state after initialisation there is one prey box, of the
\* form (x-5, y-5, x+5, y+5) with 15 <= x < WINDOW_WIDTH-15 and
\* 15 <= y < WINDOW_HEIGHT-15; a box that overlaps the snake is a permitted
\* draw (the witness).
C13_PreyInRegion == CentredInRegion(preyCoordinates)

\* createNewPrey has just drawn a box on the snake
C13_Witness ==
  /\ pc = "over_x" /\ PreyCaught
  /\ OverlapsSnake(preyCoordinates)
  /\ Last(emitted).type = "move"
  /\ emitted[Len(emitted) - 1].arg = preyCoordinates

\* ------------------------------------------------------------------ C14
Abs(n) == IF n < 0 THEN -n ELSE n

\* p and q differ by one step of 10 units in exactly one axis
OneStepApart(p, q) ==
  \/ Abs(p[1] - q[1]) = 10 /\ p[2] = q[2]
  \/ p[1] = q[1] /\ Abs(p[2] - q[2]) = 10

\* C14: in every state the snake is a non-empty sequence in which each two
\* consecutive positions differ by exactly one step of 10 units in exactly
\* one axis (also right after growth).
C14_SnakeShape ==
  /\ Len(snake) >= 1
  /\ \A i \in 1..(Len(snake) - 1) : OneStepApart(snake[i], snake[i + 1])

\* right after growth, with a turn in the body
C14_Witness ==
  /\ pc = "over_x" /\ PreyCaught
  /\ Len(snake) = 7
  /\ \E i \in 1..Len(snake) : snake[i][2] # 55

\* ------------------------------------------------------------------ C15
MoveTask == Task("move", << snakeCoordinates' >>)

\* what a step of the simulation thread puts, in order
C15_Step ==
  /\ SimStepFrom("update")
       => /\ queue' = queue \o TasksOf(PutBy)
          /\ Last(PutBy).body = snake'
          /\ IF PreyCaught'
               THEN /\ TasksOf(PutBy) = << Task("score", << score' >>),
                                          Task("prey", preyCoordinates'),
                                          MoveTask >>
                    /\ score' = score + 1
                    /\ Len(snake') = Len(snake) + 1
               ELSE TasksOf(PutBy) = << MoveTask >>
  /\ SimStepFrom("over_x") \/ SimStepFrom("over_y")
       => /\ queue' = queue \o TasksOf(PutBy)
          /\ TasksOf(PutBy) \in {<< >>, << GameOverTask >>}
          /\ PutBy # << >> <=> gameNotOver /\ ~gameNotOver'
          /\ PutBy # << >> => TaskOf(Last(emitted)) = MoveTask
  /\ ~(SimStepFrom("update") \/ SimStepFrom("over_x") \/ SimStepFrom("over_y"))
       => emitted' = emitted

InitialPreyTask == Task("prey", preyCoordinates)

\* C15 as claimed: the order of the tasks of a tick, and before the first
\* tick the channel holds exactly one task, the prey task of the
\* initialisation.
C15_AsClaimed ==
  [][C15_Step]_vars /\ [](ticks = 0 => queue = << InitialPreyTask >>)

\* C15: a capture tick puts exactly score (the new score), prey (the new
\* box), move (the grown body), in that order; a tick without capture puts
\* exactly one move; a tick that ends the game puts game_over after its move.
\* Before the first tick exactly one task has been put, the prey task of the
\* initialisation; the first queueHandler call, made by the constructor of
\* QueueHandler, takes it before the simulation thread starts.
C15_EventOrder ==
  /\ [][C15_Step]_vars
  /\ [](ticks = 0
          => /\ TasksOf(emitted) = << InitialPreyTask >>
             /\ \/ queue = << InitialPreyTask >> /\ handled = << >>
                \/ queue = << >> /\ TasksOf(handled) = << InitialPreyTask >>
             /\ pc # "notstarted" => queue = << >>)

\* a capture tick that ended the game: score, prey, move, game_over
C15_Witness ==
  /\ TickDone /\ PreyCaught /\ ~gameNotOver
  /\ Len(emitted) = 5
  /\ Len(handled) + Len(queue) = 5

\* ------------------------------------------------------------------ C16
\* the last tick made no capture and its new head is the cell the tail left,
\* and no other cell of the body
EntersVacatedTail ==
  /\ ticks > 0 /\ pc \notin {"move", "update"}
  /\ ~PreyCaught
  /\ NewSnakeCoordinates = before[1]
  /\ ~InList(NewSnakeCoordinates, Tail(before))

C16_Step ==
  /\ EntersVacatedTail /\ SimStepFrom("over_x")
       /\ ~TowardWallX(NewSnakeCoordinates, direction)
       => gameNotOver' /\ queue' = queue /\ emitted' = emitted
  /\ EntersVacatedTail /\ SimStepFrom("over_y")
       /\ ~TowardWallY(NewSnakeCoordinates, direction)
       => gameNotOver' /\ queue' = queue /\ emitted' = emitted

C16_Tick ==
  (TickDone /\ EntersVacatedTail
     /\ ~\E d \in Directions : TowardWall(NewSnakeCoordinates, d))
    => gameNotOver /\ ~GameOverEmitted

\* C16: a tick without capture whose new head is the tail cell of the body
\* the tick started with, and no other body cell, and for which isGameOver
\* finds no wall, leaves the game live and puts no game_over.
C16_VacatedTailIsLegal == [][C16_Step]_vars /\ []C16_Tick

C16_Witness ==
  /\ TickDone /\ EntersVacatedTail
  /\ gameNotOver /\ ~GameOverEmitted
  /\ Head_ = before[1]

\* ------------------------------------------------------------------ C17
\* a queueHandler call returns (re-armed) only on an empty queue
C17_Drain ==
  hpc = "draining" /\ hpc' = "waiting" => queue = << >> /\ queue' = << >>

AllHandled == Len(handled) = Len(emitted) /\ queue = << >>

\* C17: a queueHandler call takes every task in the channel and then re-arms
\* itself, also after game_over; with the poll scheduled fairly every task
\* put is eventually handled, game_over included, and once the game is over
\* the channel eventually is and stays empty.
C17_DrainNeverStalls ==
  /\ [][C17_Drain]_vars
  /\ []<>AllHandled
  /\ <>[](gameNotOver \/ (AllHandled /\ GameOverHandled))

\* game_over was put while older tasks waited, and all were handled by polls
\* that followed
C17_Witness ==
  /\ ~gameNotOver /\ AllHandled /\ GameOverHandled
  /\ hpc = "waiting"
  /\ Len(handled) >= 4
  /\ pc = "loop"

\* ------------------------------------------------------------------ C18
\* the simulation thread is between two ticks
BetweenTicks == pc \in {"notstarted", "loop", "done"}

\* C18: every snake coordinate (x, y) has 5 <= x <= WINDOW_WIDTH-5 and
\* 5 <= y <= WINDOW_HEIGHT-5 in every state, and while the game is live the
\* head is strictly inside these bounds, under every interleaving of keys
\* and ticks.
C18_InsideArena ==
  /\ \A i \in 1..Len(snake) :
       /\ 5 <= snake[i][1] /\ snake[i][1] <= WINDOW_WIDTH - 5
       /\ 5 <= snake[i][2] /\ snake[i][2] <= WINDOW_HEIGHT - 5
  /\ (gameNotOver /\ BetweenTicks)
       => /\ 5 < Head_[1] /\ Head_[1] < WINDOW_WIDTH - 5
          /\ 5 < Head_[2] /\ Head_[2] < WINDOW_HEIGHT - 5

\* the first half of C18 alone: no cell of the snake is outside the arena
C18_NoCellOutside ==
  \A i \in 1..Len(snake) :
    /\ 5 <= snake[i][1] /\ snake[i][1] <= WINDOW_WIDTH - 5
    /\ 5 <= snake[i][2] /\ snake[i][2] <= WINDOW_HEIGHT - 5

\* ------------------------------------------------------------------ C19
\* the coordinates congruent to 5 modulo 10, over the canvas and one cell
\* beyond it on each side
Lattice(n) == { 10 * k + 5 : k \in (-1)..(n \div 10) }

\* the lattice cells on which move finds the prey caught: the two range
\* tests of its condition, one on each axis
CaptureX(box) == { cx \in Lattice(WINDOW_WIDTH) : cx \in range(box[1], box[3]) }

CaptureY(box) == { cy \in Lattice(WINDOW_HEIGHT) : cy \in range(box[2], box[4]) }

CaptureCells(box) == CaptureX(box) \X CaptureY(box)

\* createNewPrey has just set preyCoordinates
PreyJustCreated ==
  \/ ticks = 0 /\ handled = << >>
  \/ pc = "over_x" /\ PreyCaught

C19_State ==
  /\ \A i \in 1..Len(snake) :
       snake[i][1] % 10 = 5 /\ snake[i][2] % 10 = 5
  /\ PreyJustCreated =>
       LET cells == CaptureCells(preyCoordinates)
       IN  /\ Cardinality(cells) = 1
           /\ \A c \in cells :
                /\ InPreyBox(c, preyCoordinates)
                /\ 15 <= c[1] /\ c[1] <= WINDOW_WIDTH - 15
                /\ 15 <= c[2] /\ c[2] <= WINDOW_HEIGHT - 15
                /\ \A d \in Directions :
                     ~HitsWallX(c, d) /\ ~HitsWallY(c, d)
  /\ (PreyCaught /\ pc \in {"over_x", "over_y"}) =>
       /\ ~HitsWallX(NewSnakeCoordinates, direction)
       /\ ~HitsWallY(NewSnakeCoordinates, direction)

\* move finds the prey caught exactly on the capture cells of its box
C19_Step ==
  SimStepFrom("update") =>
    (PreyCaught' <=> NewSnakeCoordinates \in CaptureCells(preyCoordinates))

\* C19: every snake coordinate is congruent to 5 modulo 10 on both axes;
\* every prey box createNewPrey produces is entered by exactly one lattice
\* cell (cx, cy), which has 15 <= cx <= WINDOW_WIDTH-15 and
\* 15 <= cy <= WINDOW_HEIGHT-15 and meets no wall disjunct of isGameOver in
\* any direction; and on the tick that captures a prey no wall disjunct of
\* isGameOver holds.
C19_PreyCapturable == []C19_State /\ [][C19_Step]_vars

\* a first prey drawn anywhere in the range was captured on the lattice and
\* the tick went on to the checks of isGameOver with the game live
C19_Witness ==
  /\ pc = "over_y"
  /\ PreyCaught
  /\ score = 1
  /\ gameNotOver
  /\ Head_ \in CaptureCells(PreyBox(<< 441, 51 >>))

\* ------------------------------------------------------------------ C20
\* the wall disjunct of isGameOver for direction d can still become true for
\* a head that moves from h in direction d
WallAhead(h, d) ==
  CASE d = "Left"  -> h[1] > MARGIN
    [] d = "Right" -> h[1] < WINDOW_WIDTH - MARGIN
    [] d = "Up"    -> h[2] > MARGIN
    [] d = "Down"  -> h[2] < WINDOW_HEIGHT - MARGIN

\* a cell of the snake lies on the line the head moves along, ahead of it
BodyAhead(h, d) ==
  \E i \in 1..Len(snake) :
    CASE d = "Left"  -> snake[i][2] = h[2] /\ snake[i][1] < h[1]
      [] d = "Right" -> snake[i][2] = h[2] /\ snake[i][1] > h[1]
      [] d = "Up"    -> snake[i][1] = h[1] /\ snake[i][2] < h[2]
      [] d = "Down"  -> snake[i][1] = h[1] /\ snake[i][2] > h[2]

\* C20: in every live state between two ticks the snake, left without
\* input, meets a wall or its own body after finitely many ticks: moving
\* straight, the head has the wall coordinate of its direction or a cell of
\* its body ahead of it.  (Where neither is ahead, no disjunct of isGameOver
\* ever holds again: the wall disjuncts of the other directions are not
\* read, the coordinate of this one moves away from its wall value, and the
\* body stays behind the head.)
C20_EndsWithoutInput ==
  (gameNotOver /\ pc = "loop") =>
    WallAhead(Head_, direction) \/ BodyAhead(Head_, direction)
====
